---- MODULE Spec2Model ----
(***************************************************************************)
(* A model of the cyber-triage pipeline: the SQLite state store            *)
(* (db_manager.py), the analysis engine (gemini_analyzer.py), the          *)
(* interactive flows that drive them (cyber_triage_cli.py) and the job     *)
(* scheduler (scheduler.py).                                               *)
(*                                                                         *)
(* Tables are sets of rows.  Time is a UTC clock `now` counted in ticks;   *)
(* SQLite's CURRENT_TIMESTAMP stamps a row with `now`.  Every store call   *)
(* takes the outcome of the database for that call as an input:            *)
(*   "ok"     the statements and the commit succeed,                       *)
(*   "error"  a sqlite3.Error is raised inside the method's try block,     *)
(*   "raise"  _get_connection() itself raises (it is called before the     *)
(*            try), so the exception leaves the method.                    *)
(* The processing cycle of incident_processor.py, which is not among the   *)
(* sources, is modelled from the specification (see "processing cycle").   *)
(* Columns that no code path reads or compares (file_name, file_path,      *)
(* file_type, file_size, user_email, cyberhaven_data, gemini_raw_response, *)
(* processing_time) are left out of the rows.                              *)
(***************************************************************************)
EXTENDS Integers, Sequences, FiniteSets, TLC

\* ------------------------------------------------------------------ bounds
\* A day, in clock ticks.
DayTicks == 2
\* The clock stops at MaxNow; the AUTOINCREMENT counters stop at these.
MaxNow == 3
MaxAnalysisRows == 2
MaxFeedbackRows == 2
\* clear_old_data is called with 0..MaxDays days.
MaxDays == 1
\* The feedback rows of the analysis specification.
MaxAnalyzeFeedback == 1
\* The feedback rows of the retrieval specification, and where its clock stops.
MaxRagRows == 3
MaxRagNow == 1
\* A processing cycle analyzes at most MaxPerCycle incidents (max_analysis).
MaxPerCycle == 3
\* get_feedback_for_rag is called with a limit of -1..MaxLimit.
MaxLimit == 2

\* ------------------------------------------------------------- value sets
IncidentIds == {"INC-1", "INC-2"}
\* The incidents a processing cycle may find.
CycleIncidentIds == {"INC-1", "INC-2", "INC-3"}
Verdicts == {"TRUE_POSITIVE", "FALSE_POSITIVE", "REQUIRES_REVIEW"}
Statuses == {"pending", "analyzed", "error"}
DbOutcomes == {"ok", "error", "raise"}
\* The local UTC offset of the calling process, in ticks.
TzOffsets == {-1, 0, 1}
NULL == "NULL"
\* analysis_id of a result that carries none (a failure result has no such key).
NoId == 0
RequiredFields == {"verdict", "confidence", "summary", "reasoning"}
\* Lengths of the text _read_file_content returns.
ContentLengths == {0, 9, 10, 49999, 50000, 50001, 60000}
\* Confidence is counted in tenths: 0..10 is the range [0.0, 1.0].
\* What client.models.generate_content does: it raises, or returns a text that
\* is not JSON, or JSON that is no object, or an object with some of the keys.
Response(k, f, v, c) == [kind |-> k, fields |-> f, verdict |-> v, confidence |-> c]
Responses ==
    {Response("transport_error", {}, NULL, 0),
     Response("unparseable", {}, NULL, 0),
     Response("nonobject", {}, NULL, 0)}
    \cup {Response("object", RequiredFields, v, 9) :
              v \in {"TRUE_POSITIVE", "REQUIRES_REVIEW", "MALICIOUS"}}
    \cup {Response("object", RequiredFields, "TRUE_POSITIVE", 15)}
    \cup {Response("object", RequiredFields \ {f}, "TRUE_POSITIVE", 9) :
              f \in RequiredFields}
\* A piece of prompt text: its section, and two numbers that say what it holds.
Sec(name, x, y) == [sec |-> name, x |-> x, y |-> y]
\* The response slot of a call that never reached the model.
NoResponse == Response("not called", {}, NULL, 0)
\* A comment as typed: `pad` characters of surrounding whitespace and `body`
\* characters between them.
Comment(pad, body) == [pad |-> pad, body |-> body]
\* What the analyst types at the comment prompt, one try after the other.
CommentAttempts ==
    {<<Comment(0, 10)>>, <<Comment(9, 3), Comment(0, 10)>>}
\* relevance_map, in tenths.
RelevanceScores == {3, 7, 10}
\* What prompts/rag_template.md may hold, as the pieces of its text (empty
\* when the file is missing).
RagTemplates ==
    {<< >>,
     <<Sec("TPL_TEXT", 0, 0)>>,
     <<Sec("TPL_IF_HAS_FEEDBACK", 0, 0), Sec("TPL_TEXT", 0, 0)>>}

VARIABLES
    incidents,      \* table incidents
    analysis,       \* table analysis
    feedback,       \* table feedback
    analysis_seq,   \* sqlite_sequence of analysis (AUTOINCREMENT)
    feedback_seq,   \* sqlite_sequence of feedback (AUTOINCREMENT)
    now,            \* the UTC clock
    rag_template,   \* GeminiAnalyzer.rag_template, loaded at construction
    cli,            \* where the interactive session stands
    cycle,          \* the processing cycle in flight: its queue and its log
    sched,          \* CyberTriageScheduler and the APScheduler behind it
    last            \* the last call: its name, its arguments and what it returned

vars == <<incidents, analysis, feedback, analysis_seq, feedback_seq, now,
          rag_template, cli, cycle, sched, last>>

Min(a, b) == IF a < b THEN a ELSE b

\* ------------------------------------------------------------ state store

\* insert_incident as INSERT OR REPLACE would behave: a stored identifier's row
\* is overwritten and the call reports an insert.
insert_incident_or_replace(rows, id, status, t, db) ==
    IF db = "error"
    THEN [rows |-> rows, ret |-> FALSE]
    ELSE [rows |-> {r \in rows : r.incident_id # id}
                   \cup {[incident_id |-> id, status |-> status, created_at |-> t]},
          ret |-> TRUE]

\* INSERT INTO incidents: incident_id is the PRIMARY KEY, so a second row
\* with a stored identifier raises IntegrityError.
insert_incident(rows, id, status, t, db) ==
    IF db = "error"
    THEN [rows |-> rows, ret |-> FALSE]
    ELSE IF \E r \in rows : r.incident_id = id
         THEN [rows |-> rows, ret |-> FALSE]
         ELSE [rows |-> rows \cup {[incident_id |-> id, status |-> status,
                                    created_at |-> t]},
               ret |-> TRUE]

\* UPDATE incidents SET status = ? without the WHERE clause.
update_incident_status_of_all(rows, id, status, db) ==
    IF db = "error"
    THEN [rows |-> rows, ret |-> FALSE]
    ELSE [rows |-> {[r EXCEPT !.status = status] : r \in rows}, ret |-> TRUE]

\* UPDATE incidents SET status = ? WHERE incident_id = ?
update_incident_status(rows, id, status, db) ==
    IF db = "error"
    THEN [rows |-> rows, ret |-> FALSE]
    ELSE [rows |-> {IF r.incident_id = id THEN [r EXCEPT !.status = status] ELSE r
                    : r \in rows},
          ret |-> TRUE]

\* INSERT OR REPLACE INTO analysis over a table that keeps one row for each
\* incident.
insert_analysis_replacing(rows, seq, data, t, db) ==
    IF db = "error"
    THEN [rows |-> rows, seq |-> seq, ret |-> -1]
    ELSE [rows |-> {r \in rows : r.incident_id # data.incident_id}
                   \cup {[id |-> seq + 1,
                          incident_id |-> data.incident_id,
                          gemini_verdict |-> data.gemini_verdict,
                          gemini_confidence |-> data.gemini_confidence,
                          gemini_reasoning |-> data.gemini_reasoning,
                          created_at |-> t]},
          seq |-> seq + 1, ret |-> seq + 1]

\* INSERT INTO analysis: returns cursor.lastrowid, or -1 on a sqlite3.Error.
insert_analysis(rows, seq, data, t, db) ==
    IF db = "error"
    THEN [rows |-> rows, seq |-> seq, ret |-> -1]
    ELSE [rows |-> rows \cup {[id |-> seq + 1,
                               incident_id |-> data.incident_id,
                               gemini_verdict |-> data.gemini_verdict,
                               gemini_confidence |-> data.gemini_confidence,
                               gemini_reasoning |-> data.gemini_reasoning,
                               created_at |-> t]},
          seq |-> seq + 1,
          ret |-> seq + 1]

\* INSERT INTO feedback
insert_feedback(rows, seq, data, t, db) ==
    IF db = "error"
    THEN [rows |-> rows, seq |-> seq, ret |-> FALSE]
    ELSE [rows |-> rows \cup {[id |-> seq + 1,
                               incident_id |-> data.incident_id,
                               analysis_id |-> data.analysis_id,
                               original_verdict |-> data.original_verdict,
                               corrected_verdict |-> data.corrected_verdict,
                               analyst_comment |-> data.analyst_comment,
                               relevance_score |-> data.relevance_score,
                               created_at |-> t]},
          seq |-> seq + 1,
          ret |-> TRUE]

\* All orderings of a finite set of rows.
Perms(S) ==
    {s \in [1..Cardinality(S) -> S] :
        \A i, j \in 1..Cardinality(S) : i # j => s[i] # s[j]}

\* ORDER BY f.relevance_score DESC, f.created_at ASC
RagBefore_oldest_first(a, b) ==
    \/ a.relevance_score > b.relevance_score
    \/ a.relevance_score = b.relevance_score /\ a.created_at < b.created_at

\* ORDER BY f.relevance_score DESC, f.created_at DESC: a comes strictly before b.
RagBefore(a, b) ==
    \/ a.relevance_score > b.relevance_score
    \/ a.relevance_score = b.relevance_score /\ a.created_at > b.created_at

\* FROM feedback f LEFT JOIN incidents i ON ... LEFT JOIN analysis a ON ...
RagJoin_left_join_incidents(fb, inc, an) ==
    {[id |-> f.id,
      incident_id |-> f.incident_id,
      analysis_id |-> f.analysis_id,
      original_verdict |-> f.original_verdict,
      corrected_verdict |-> f.corrected_verdict,
      analyst_comment |-> f.analyst_comment,
      relevance_score |-> f.relevance_score,
      created_at |-> f.created_at,
      original_reasoning |->
          IF \E a \in an : a.id = f.analysis_id
          THEN (CHOOSE a \in an : a.id = f.analysis_id).gemini_reasoning
          ELSE NULL]
     : f \in fb}

\* FROM feedback f JOIN incidents i ON ... LEFT JOIN analysis a ON ...
RagJoin(fb, inc, an) ==
    {[id |-> f.id,
      incident_id |-> f.incident_id,
      analysis_id |-> f.analysis_id,
      original_verdict |-> f.original_verdict,
      corrected_verdict |-> f.corrected_verdict,
      analyst_comment |-> f.analyst_comment,
      relevance_score |-> f.relevance_score,
      created_at |-> f.created_at,
      original_reasoning |->
          IF \E a \in an : a.id = f.analysis_id
          THEN (CHOOSE a \in an : a.id = f.analysis_id).gemini_reasoning
          ELSE NULL]
     : f \in {g \in fb : \E i \in inc : i.incident_id = g.incident_id}}

\* The results get_feedback_for_rag may return: rows that tie in both sort
\* keys come in an order SQLite does not define.  LIMIT with a negative
\* number is no limit.
get_feedback_for_rag(fb, inc, an, limit, db) ==
    IF db = "error"
    THEN {<< >>}
    ELSE LET joined == RagJoin(fb, inc, an)
             n == IF limit < 0 THEN Cardinality(joined)
                  ELSE Min(limit, Cardinality(joined))
         IN {SubSeq(s, 1, n) :
                s \in {p \in Perms(joined) :
                          \A i, j \in 1..Cardinality(joined) :
                              i < j => ~RagBefore(p[j], p[i])}}

\* SELECT * FROM incidents [WHERE status = ?]: the rows get_all_incidents
\* returns ([] on a sqlite3.Error).
get_all_incidents(rows, status, db) ==
    IF db = "error" THEN {} ELSE {r \in rows : r.status = status}

\* SELECT * FROM analysis WHERE incident_id = ? ORDER BY created_at DESC LIMIT 1:
\* the rows get_latest_analysis may return (none: it returns None).  Rows of
\* one created_at come in an order SQLite does not define.
get_latest_analysis(rows, id, db) ==
    IF db = "error"
    THEN {}
    ELSE {a \in rows : /\ a.incident_id = id
                        /\ \A b \in rows : b.incident_id = id
                                               => b.created_at <= a.created_at}

\* date_limit of clear_old_data: datetime.now() is the local wall clock.
DateLimit(localnow, days) == localnow - days * DayTicks

\* DELETE FROM feedback / analysis / incidents WHERE created_at < date_limit,
\* one transaction; returns (deleted_incidents, deleted_analysis, deleted_feedback).
clear_old_data(inc, an, fb, days, localnow, db) ==
    IF db = "error"
    THEN [incidents |-> inc, analysis |-> an, feedback |-> fb, ret |-> <<0, 0, 0>>]
    ELSE LET lim == DateLimit(localnow, days)
             oldF == {r \in fb : r.created_at < lim}
             oldA == {r \in an : r.created_at < lim}
             oldI == {r \in inc : r.created_at < lim}
         IN [incidents |-> inc \ oldI, analysis |-> an \ oldA, feedback |-> fb \ oldF,
             ret |-> <<Cardinality(oldI), Cardinality(oldA), Cardinality(oldF)>>]

\* SELECT COUNT(*) FROM feedback, and the count of rows whose verdicts differ.
get_feedback_stats(fb, db) ==
    IF db = "error"
    THEN [total_feedback |-> 0, corrections |-> 0]
    ELSE [total_feedback |-> Cardinality(fb),
          corrections |->
              Cardinality({f \in fb : f.original_verdict # f.corrected_verdict})]

\* ------------------------------------------------------- analysis engine

\* rag_template.replace("{{#if has_feedback}}", "{{else}}")
ReplaceIfMarker(tpl) ==
    [i \in 1..Len(tpl) |->
        IF tpl[i].sec = "TPL_IF_HAS_FEEDBACK" THEN Sec("TPL_ELSE", 0, 0) ELSE tpl[i]]

\* _build_rag_context, given what get_feedback_for_rag and get_feedback_stats
\* returned.  A case entry holds the feedback id and whether the original
\* reasoning is shown.
build_rag_context(items, stats, tpl) ==
    IF items = << >>
    THEN ReplaceIfMarker(tpl)
    ELSE <<Sec("LEARNING_HEADER", Len(items), 0)>>
         \o [i \in 1..Len(items) |->
                Sec("LEARNING_CASE", items[i].id,
                    IF items[i].original_reasoning # NULL THEN 1 ELSE 0)]
         \o <<Sec("LEARNING_STATS", stats.total_feedback, stats.corrections),
              Sec("LEARNING_APPLY", 0, 0)>>

\* The characters of the file content that go into the prompt.
MaxContentChars == 50000

\* file_content[-50000:]: the last characters instead of the first.
ContentSlice_tail(len) ==
    <<IF len > MaxContentChars THEN len - MaxContentChars ELSE 0, len>>

\* file_content[:50000] as the bounds <<x, y>> of the slice file_content[x:y]
\* of a content of len characters.
ContentSlice(len) == <<0, Min(len, MaxContentChars)>>

\* full_prompt of analyze_file; the content section holds file_content[x:y].
ComposePrompt(rag, len) ==
    <<Sec("SYSTEM", 0, 0)>> \o rag
    \o <<Sec("INCIDENT", 0, 0),
         Sec("CONTENT", ContentSlice(len)[1], ContentSlice(len)[2]),
         Sec("DIRECTIVE", 0, 0)>>

\* A failure result with its error text.
FailureText(id, text) ==
    [success |-> FALSE, incident_id |-> id, analysis_id |-> NoId, verdict |-> NULL,
     error |-> text]

\* The handler of except Exception without the incident_id key.
Failure_without_incident_id(id) == FailureText(NULL, "str(e)")

\* The result of the handler of except Exception: the text of the exception.
Failure(id) == FailureText(id, "str(e)")

\* The required_fields loop without 'reasoning'.
ResponseAccepted_without_reasoning(resp) ==
    resp.kind = "object" /\ (RequiredFields \ {"reasoning"}) \subseteq resp.fields

\* json.loads and the required_fields loop let the response through.
ResponseAccepted(resp) ==
    resp.kind = "object" /\ RequiredFields \subseteq resp.fields

\* analyze_file from the model call on: what it stores and what it returns.
\* `prompt` is the text sent to the model.
AnalyzeResponse(an, seq, id, prompt, resp, dbAn, t) ==
    IF resp.kind = "unparseable"
    THEN [analysis |-> an, seq |-> seq,
          result |-> FailureText(id, "Error parseando respuesta JSON"),
          prompt |-> prompt]
    ELSE IF ~ResponseAccepted(resp) \/ dbAn = "raise"
    THEN [analysis |-> an, seq |-> seq, result |-> Failure(id), prompt |-> prompt]
    ELSE LET ins == insert_analysis(an, seq,
                        [incident_id |-> id,
                         gemini_verdict |-> resp.verdict,
                         gemini_confidence |->
                             IF "confidence" \in resp.fields THEN resp.confidence
                             ELSE NULL,
                         gemini_reasoning |->
                             IF "reasoning" \in resp.fields THEN "reasoning"
                             ELSE NULL], t, dbAn)
         IN [analysis |-> ins.rows, seq |-> ins.seq,
             result |-> [success |-> TRUE, incident_id |-> id,
                         analysis_id |-> ins.ret, verdict |-> resp.verdict,
                         error |-> NULL],
             prompt |-> prompt]

\* A test that refuses the empty content only.
ContentInsufficient_empty_only(len) == len = 0

\* not file_content or len(file_content) < 10
ContentInsufficient(len) == len = 0 \/ len < 10

\* analyze_file(file_path, incident_id, use_rag).  `items` is what
\* get_feedback_for_rag returned (dbRag said how the call went).
analyze_file(an, seq, fb, tpl, id, len, use_rag, items, dbRag, dbStats, resp, dbAn, t) ==
    IF ContentInsufficient(len)
    THEN [analysis |-> an, seq |-> seq,
          result |-> FailureText(id, "Archivo vacio o contenido insuficiente"),
          prompt |-> << >>]
    ELSE IF use_rag /\ (dbRag = "raise" \/ (items # << >> /\ dbStats = "raise"))
    THEN [analysis |-> an, seq |-> seq, result |-> Failure(id), prompt |-> << >>]
    ELSE LET rag == IF use_rag
                    THEN build_rag_context(items, get_feedback_stats(fb, dbStats), tpl)
                    ELSE << >>
         IN AnalyzeResponse(an, seq, id, ComposePrompt(rag, len), resp, dbAn, t)

\* ------------------------------------------------------ interactive flows

\* The loop test on the length of the comment as typed.
CommentLongEnough_unstripped(c) == c.pad + c.body >= 10

\* not (len(analyst_comment.strip()) < 10)
CommentLongEnough(c) == c.body >= 10

\* The comment the while loop of _collect_feedback lets through: the first
\* try that is long enough, as it was typed (an empty one while every try so
\* far was too short).
AcceptedComment(attempts) ==
    IF \E i \in 1..Len(attempts) : CommentLongEnough(attempts[i])
    THEN attempts[CHOOSE i \in 1..Len(attempts) :
                      /\ CommentLongEnough(attempts[i])
                      /\ \A j \in 1..(i - 1) : ~CommentLongEnough(attempts[j])]
    ELSE Comment(0, 0)

\* status = 'analyzed' if corrected_verdict != 'REQUIRES_REVIEW' else 'pending'
StatusAfterFeedback(corrected) ==
    IF corrected # "REQUIRES_REVIEW" THEN "analyzed" ELSE "pending"

\* _collect_feedback from submit_feedback on: insert_feedback, and the status
\* update when it returned True.  An exception of either call leaves the
\* handler where it is raised.
collect_feedback(inc, fb, seq, id, result, corrected, comment, relevance, dbFb, dbUpd, t) ==
    IF dbFb = "raise"
    THEN [incidents |-> inc, feedback |-> fb, seq |-> seq, success |-> FALSE,
          raised |-> TRUE]
    ELSE LET ins == insert_feedback(fb, seq,
                        [incident_id |-> id,
                         analysis_id |-> result.analysis_id,
                         original_verdict |-> result.verdict,
                         corrected_verdict |-> corrected,
                         analyst_comment |-> comment,
                         relevance_score |-> relevance], t, dbFb)
         IN IF ~ins.ret
            THEN [incidents |-> inc, feedback |-> fb, seq |-> seq, success |-> FALSE,
                  raised |-> FALSE]
            ELSE IF dbUpd = "raise"
            THEN [incidents |-> inc, feedback |-> ins.rows, seq |-> ins.seq,
                  success |-> TRUE, raised |-> TRUE]
            ELSE [incidents |->
                      update_incident_status(inc, id, StatusAfterFeedback(corrected),
                                             dbUpd).rows,
                  feedback |-> ins.rows, seq |-> ins.seq, success |-> TRUE,
                  raised |-> FALSE]

Menu == [pc |-> "menu", incident_id |-> NULL, result |-> Failure(NULL)]

\* ---------------------------------------------------------------- actions
\* Every action takes the inputs it draws from as a record of sets `e`, so
\* that each specification below can say which inputs it lets vary.

Tick(maxNow) ==
    /\ now < maxNow
    /\ now' = now + 1
    /\ last' = [op |-> "tick"]
    /\ UNCHANGED <<incidents, analysis, feedback, analysis_seq, feedback_seq,
                   rag_template, cycle, sched, cli>>

\* A caller of the store submits an incident: insert_incident, status 'pending'.
PutIncident(e) ==
    \E id \in e.ids, db \in e.dbInc :
        LET r == insert_incident(incidents, id, "pending", now, db)
        IN /\ incidents' = IF db = "raise" THEN incidents ELSE r.rows
           /\ last' = [op |-> "insert_incident", incident_id |-> id, db |-> db,
                       ret |-> IF db = "raise" THEN FALSE ELSE r.ret,
                       raised |-> db = "raise"]
           /\ UNCHANGED <<analysis, feedback, analysis_seq, feedback_seq, now,
                          rag_template, cycle, sched, cli>>

\* A caller of the store sets a status: update_incident_status.
SetIncidentStatus(e) ==
    \E id \in e.ids, st \in e.statuses, db \in e.dbUpd :
        LET r == update_incident_status(incidents, id, st, db)
        IN /\ incidents' = IF db = "raise" THEN incidents ELSE r.rows
           /\ last' = [op |-> "update_incident_status", incident_id |-> id,
                       status |-> st, db |-> db,
                       ret |-> IF db = "raise" THEN FALSE ELSE r.ret,
                       raised |-> db = "raise"]
           /\ UNCHANGED <<analysis, feedback, analysis_seq, feedback_seq, now,
                          rag_template, cycle, sched, cli>>

\* The end of analyze_files once every input of the call is known.
FinishAnalyzeFiles(id, inc, len, items, dbRag, dbStats, resp, dbAn) ==
    LET a == analyze_file(analysis, analysis_seq, feedback, rag_template, id, len,
                          TRUE, items, dbRag, dbStats, resp, dbAn, now)
    IN /\ incidents' = inc
       /\ analysis' = a.analysis
       /\ analysis_seq' = a.seq
       /\ cli' = IF a.result.success
                 THEN [pc |-> "result_shown", incident_id |-> id, result |-> a.result]
                 ELSE Menu
       /\ last' = [op |-> "analyze_files", incident_id |-> id, raised |-> FALSE,
                   len |-> len, dbRag |-> dbRag, resp |-> resp, dbAn |-> dbAn,
                   result |-> a.result, prompt |-> a.prompt,
                   feedback_rows |-> Cardinality(feedback)]
       /\ UNCHANGED <<feedback, feedback_seq, now, rag_template, cycle, sched>>

\* Menu option 2, analyze_files: register the incident (the return value is
\* dropped), analyze the file, and show the result when it is a success.
\* An input is drawn only where the call gets as far as reading it.
CliAnalyzeFiles(e) ==
    /\ cli.pc = "menu"
    /\ analysis_seq < e.maxAnalysis
    /\ \E id \in e.ids, dbInc \in e.dbInc :
        IF dbInc = "raise"
        THEN /\ last' = [op |-> "analyze_files", incident_id |-> id, raised |-> TRUE,
                         len |-> 0, dbRag |-> "ok", resp |-> NoResponse,
                         dbAn |-> "ok", result |-> Failure(id), prompt |-> << >>,
                         feedback_rows |-> Cardinality(feedback)]
             /\ UNCHANGED <<incidents, analysis, feedback, analysis_seq,
                            feedback_seq, now, rag_template, cycle, sched, cli>>
        ELSE LET inc == insert_incident(incidents, id, "pending", now, dbInc).rows
             IN \E len \in e.lens :
                IF ContentInsufficient(len)
                THEN FinishAnalyzeFiles(id, inc, len, << >>, "ok", "ok", NoResponse, "ok")
                ELSE \E dbRag \in e.dbRag :
                     IF dbRag = "raise"
                     THEN FinishAnalyzeFiles(id, inc, len, << >>, dbRag, "ok",
                                             NoResponse, "ok")
                     ELSE \E items \in get_feedback_for_rag(feedback, inc, analysis,
                                                            5, dbRag) :
                          \E dbStats \in IF items = << >> THEN {"ok"} ELSE e.dbStats :
                          IF dbStats = "raise"
                          THEN FinishAnalyzeFiles(id, inc, len, items, dbRag, dbStats,
                                                  NoResponse, "ok")
                          ELSE \E resp \in e.resps :
                               IF ~ResponseAccepted(resp)
                               THEN FinishAnalyzeFiles(id, inc, len, items, dbRag,
                                                       dbStats, resp, "ok")
                               ELSE \E dbAn \in e.dbAn :
                                    FinishAnalyzeFiles(id, inc, len, items, dbRag,
                                                       dbStats, resp, dbAn)

\* analyze_files step by step, to follow the store connections of
\* analyze_file: `at` is where the call stands, `open` the connections it has
\* open; what it has read so far is kept for the end of the call.
AnalyzeStep(at, open, id, len, items, dbRag, dbStats, resp, dbAn) ==
    [pc |-> "analyze_file", at |-> at, open |-> open, incident_id |-> id,
     len |-> len, items |-> items, dbRag |-> dbRag, dbStats |-> dbStats,
     resp |-> resp, dbAn |-> dbAn]

\* conn = self._get_connection(): sqlite3.connect opens a connection or raises.
Connect(open, db) == IF db = "raise" THEN open ELSE open + 1

\* A store method that closes its connection at the end of the try block only.
Close_on_success_only(open, db) == IF db = "ok" THEN open - 1 ELSE open

\* finally: conn.close(), on the return of the try block and of the except
\* block alike.
Close(open, db) == open - 1

\* analyze_files registers the incident and analyze_file finds the content
\* long enough: it is about to call get_feedback_for_rag.
AnalyzeFileBegin(e) ==
    /\ cli.pc = "menu"
    /\ analysis_seq < e.maxAnalysis
    /\ \E id \in e.ids, dbInc \in e.dbInc \ {"raise"}, len \in {l \in e.lens : ~ContentInsufficient(l)} :
        /\ incidents' = insert_incident(incidents, id, "pending", now, dbInc).rows
        /\ cli' = AnalyzeStep("connect_rag", 0, id, len, << >>, "ok", "ok",
                              NoResponse, "ok")
        /\ last' = [op |-> "analyze_step", at |-> "begin"]
    /\ UNCHANGED <<analysis, feedback, analysis_seq, feedback_seq, now,
                   rag_template, cycle, sched>>

\* The store method analyze_file calls next opens its connection; when that
\* raises, analyze_file catches the exception and is about to return.
AnalyzeFileConnect(e) ==
    /\ cli.pc = "analyze_file"
    /\ \/ /\ cli.at = "connect_rag"
          /\ \E db \in e.dbRag :
              cli' = [cli EXCEPT !.dbRag = db, !.open = Connect(@, db),
                                 !.at = IF db = "raise" THEN "return" ELSE "query_rag"]
       \/ /\ cli.at = "connect_stats"
          /\ \E db \in e.dbStats :
              cli' = [cli EXCEPT !.dbStats = db, !.open = Connect(@, db),
                                 !.at = IF db = "raise" THEN "return" ELSE "query_stats"]
       \/ /\ cli.at = "connect_insert"
          /\ \E db \in e.dbAn :
              cli' = [cli EXCEPT !.dbAn = db, !.open = Connect(@, db),
                                 !.at = IF db = "raise" THEN "return" ELSE "query_insert"]
    /\ last' = [op |-> "analyze_step", at |-> "connect"]
    /\ UNCHANGED <<incidents, analysis, feedback, analysis_seq, feedback_seq, now,
                   rag_template, cycle, sched>>

\* The store method runs its statements and returns through finally.
\* get_feedback_stats is called only when feedback items were found; the row
\* of insert_analysis is added when the call returns.
AnalyzeFileQuery(e) ==
    /\ cli.pc = "analyze_file"
    /\ \/ /\ cli.at = "query_rag"
          /\ \E items \in get_feedback_for_rag(feedback, incidents, analysis, 5,
                                               cli.dbRag) :
              cli' = [cli EXCEPT !.items = items, !.open = Close(@, cli.dbRag),
                                 !.at = IF items = << >> THEN "model_call"
                                        ELSE "connect_stats"]
       \/ /\ cli.at = "query_stats"
          /\ cli' = [cli EXCEPT !.open = Close(@, cli.dbStats), !.at = "model_call"]
       \/ /\ cli.at = "query_insert"
          /\ cli' = [cli EXCEPT !.open = Close(@, cli.dbAn), !.at = "return"]
    /\ last' = [op |-> "analyze_step", at |-> "query"]
    /\ UNCHANGED <<incidents, analysis, feedback, analysis_seq, feedback_seq, now,
                   rag_template, cycle, sched>>

\* client.models.generate_content, which was in flight, returns or raises.
AnalyzeFileModelReturns(e) ==
    /\ cli.pc = "analyze_file"
    /\ cli.at = "model_call"
    /\ \E resp \in e.resps :
        cli' = [cli EXCEPT !.resp = resp,
                           !.at = IF ResponseAccepted(resp) THEN "connect_insert"
                                  ELSE "return"]
    /\ last' = [op |-> "analyze_step", at |-> "model_returns"]
    /\ UNCHANGED <<incidents, analysis, feedback, analysis_seq, feedback_seq, now,
                   rag_template, cycle, sched>>

\* analyze_file returns to analyze_files.
AnalyzeFileReturn ==
    /\ cli.pc = "analyze_file"
    /\ cli.at = "return"
    /\ FinishAnalyzeFiles(cli.incident_id, incidents, cli.len, cli.items, cli.dbRag,
                          cli.dbStats, cli.resp, cli.dbAn)

\* The shared tail of the two feedback flows.
DoCollect(e, id, result) ==
    \E corrected \in e.corrected, attempts \in e.attempts,
       relevance \in e.relevance, dbFb \in e.dbFb :
    \E dbUpd \in IF dbFb = "ok" THEN e.dbUpd ELSE {"ok"} :
        LET c == collect_feedback(incidents, feedback, feedback_seq, id, result,
                                  corrected, AcceptedComment(attempts), relevance,
                                  dbFb, dbUpd, now)
        IN /\ incidents' = c.incidents
           /\ feedback' = c.feedback
           /\ feedback_seq' = c.seq
           /\ cli' = Menu
           /\ last' = [op |-> "collect_feedback", incident_id |-> id,
                       analysis_id |-> result.analysis_id,
                       original_verdict |-> result.verdict,
                       corrected_verdict |-> corrected, dbFb |-> dbFb,
                       dbUpd |-> dbUpd, success |-> c.success, raised |-> c.raised,
                       attempts |-> attempts,
                       status_before |->
                           IF \E i \in incidents : i.incident_id = id
                           THEN (CHOOSE i \in incidents : i.incident_id = id).status
                           ELSE NULL]
           /\ UNCHANGED <<analysis, analysis_seq, now, rag_template, cycle, sched>>

\* _display_analysis_result: the analyst declines the feedback offer.
CliDeclineFeedback ==
    /\ cli.pc = "result_shown"
    /\ cli' = Menu
    /\ last' = [op |-> "decline_feedback"]
    /\ UNCHANGED <<incidents, analysis, feedback, analysis_seq, feedback_seq, now,
                   rag_template, cycle, sched>>

\* _display_analysis_result: the analyst accepts, _collect_feedback runs.
CliFeedbackOnResult(e) ==
    /\ cli.pc = "result_shown"
    /\ feedback_seq < e.maxFeedback
    /\ DoCollect(e, cli.incident_id, cli.result)

\* Menu option 4, provide_feedback: pick an incident of status 'analyzed',
\* take its latest analysis and collect the feedback on it.
CliProvideFeedback(e) ==
    /\ cli.pc = "menu"
    /\ feedback_seq < e.maxFeedback
    /\ \E dbList \in e.dbRead :
        LET shown == IF dbList = "raise" THEN {}
                     ELSE get_all_incidents(incidents, "analyzed", dbList)
        IN IF shown = {}
           THEN /\ last' = [op |-> "provide_feedback", outcome |-> "nothing to pick"]
                /\ UNCHANGED <<incidents, analysis, feedback, analysis_seq,
                               feedback_seq, now, rag_template, cycle, sched, cli>>
           ELSE \E i \in shown, dbLatest \in e.dbRead :
                LET found == IF dbLatest = "raise" THEN {}
                             ELSE get_latest_analysis(analysis, i.incident_id, dbLatest)
                IN IF found = {}
                   THEN /\ last' = [op |-> "provide_feedback",
                                    outcome |-> "no analysis"]
                        /\ UNCHANGED <<incidents, analysis, feedback, analysis_seq,
                                       feedback_seq, now, rag_template, cycle, sched, cli>>
                   ELSE \E a \in found :
                            DoCollect(e, i.incident_id,
                                      [success |-> TRUE,
                                       incident_id |-> i.incident_id,
                                       analysis_id |-> a.id,
                                       verdict |-> a.gemini_verdict,
                                       error |-> NULL])

\* clear_old_data(days), from the maintenance menu or the cleanup job.
ClearOldData(e) ==
    \E days \in e.days, tz \in e.tz, db \in e.dbPurge :
        LET r == clear_old_data(incidents, analysis, feedback, days, now + tz, db)
        IN /\ incidents' = IF db = "raise" THEN incidents ELSE r.incidents
           /\ analysis' = IF db = "raise" THEN analysis ELSE r.analysis
           /\ feedback' = IF db = "raise" THEN feedback ELSE r.feedback
           /\ last' = [op |-> "clear_old_data", days |-> days, tz |-> tz, db |-> db,
                       ret |-> IF db = "raise" THEN <<0, 0, 0>> ELSE r.ret,
                       raised |-> db = "raise"]
           /\ UNCHANGED <<analysis_seq, feedback_seq, now, rag_template, cycle, sched, cli>>

\* submit_feedback(...), as any holder of the analyzer calls it: the feedback
\* row is inserted whether or not the incident or the analysis is stored (the
\* FOREIGN KEY clauses are not enforced: no PRAGMA foreign_keys).
SubmitFeedback(e) ==
    /\ feedback_seq < e.maxFeedback
    /\ \E id \in e.fbIds, aid \in e.analysisIds, orig \in e.original,
          corrected \in e.corrected, relevance \in e.relevance, db \in e.dbFb :
        LET r == insert_feedback(feedback, feedback_seq,
                     [incident_id |-> id, analysis_id |-> aid,
                      original_verdict |-> orig, corrected_verdict |-> corrected,
                      analyst_comment |-> Comment(0, 10), relevance_score |-> relevance],
                     now, db)
        IN /\ feedback' = IF db = "raise" THEN feedback ELSE r.rows
           /\ feedback_seq' = IF db = "raise" THEN feedback_seq ELSE r.seq
           /\ last' = [op |-> "submit_feedback", incident_id |-> id, db |-> db,
                       ret |-> IF db = "raise" THEN FALSE ELSE r.ret,
                       raised |-> db = "raise"]
           /\ UNCHANGED <<incidents, analysis, analysis_seq, now, rag_template, cycle, sched, cli>>

\* get_feedback_for_rag(limit), as the feedback history of the maintenance
\* menu and analyze_file call it.
FeedbackForRag(e) ==
    \E limit \in e.limits, db \in e.dbRead :
        \E items \in IF db = "raise" THEN {<< >>}
                     ELSE get_feedback_for_rag(feedback, incidents, analysis, limit, db) :
            /\ last' = [op |-> "get_feedback_for_rag", limit |-> limit, db |-> db,
                        ret |-> items, raised |-> db = "raise"]
            /\ UNCHANGED <<incidents, analysis, feedback, analysis_seq,
                           feedback_seq, now, rag_template, cycle, sched, cli>>

\* ------------------------------------------------------ processing cycle
\* IncidentProcessor.run_full_cycle and db.get_pending_incidents are not among
\* the sources; they are modelled from section 4.6 of the specification:
\* fetch the pending incidents, analyze up to max_analysis of them one at a
\* time in fetch order, set each incident's status from its result, and
\* report the counts.

IdleCycle == [pc |-> "idle", queue |-> << >>, log |-> << >>]

\* The orders in which the pending incidents may be fetched: newest first,
\* rows of one created_at in any order; [] on a sqlite3.Error.
get_pending_incidents(rows, limit, db) ==
    IF db = "error"
    THEN {<< >>}
    ELSE LET pending == {r \in rows : r.status = "pending"}
         IN {SubSeq(p, 1, Min(limit, Len(p))) :
                p \in {q \in Perms(pending) :
                          \A i, j \in 1..Cardinality(pending) :
                              i < j => q[i].created_at >= q[j].created_at}}

\* run_full_cycle starts: the pending incidents are fetched.
CycleBegin(e) ==
    /\ cycle.pc = "idle"
    /\ \E db \in e.dbRead \ {"raise"} :
       \E fetched \in get_pending_incidents(incidents, e.maxPerCycle, db) :
           /\ cycle' = [pc |-> "running",
                        queue |-> [i \in 1..Len(fetched) |-> fetched[i].incident_id],
                        log |-> << >>]
           /\ last' = [op |-> "cycle_begin", fetched |-> Len(fetched)]
           /\ UNCHANGED <<incidents, analysis, feedback, analysis_seq, feedback_seq,
                          now, rag_template, cli, sched>>

\* The step of run_full_cycle for the incident at the head of the queue.
FinishCycleStep(id, len, items, resp, dbAn) ==
    LET a == analyze_file(analysis, analysis_seq, feedback, rag_template, id, len,
                          TRUE, items, "ok", "ok", resp, dbAn, now)
    IN /\ incidents' = update_incident_status(
                           incidents, id,
                           IF a.result.success THEN "analyzed" ELSE "error", "ok").rows
       /\ analysis' = a.analysis
       /\ analysis_seq' = a.seq
       /\ cycle' = [cycle EXCEPT
                       !.queue = Tail(cycle.queue),
                       !.log = Append(cycle.log,
                                      [incident_id |-> id, len |-> len, resp |-> resp,
                                       dbAn |-> dbAn, result |-> a.result])]
       /\ last' = [op |-> "cycle_step", incident_id |-> id]
       /\ UNCHANGED <<feedback, feedback_seq, now, rag_template, cli, sched>>

\* One incident of the cycle: analyze_file, then the status from its result.
\* An input is drawn only where analyze_file gets as far as reading it.
CycleStep(e) ==
    /\ cycle.pc = "running"
    /\ cycle.queue # << >>
    /\ LET id == Head(cycle.queue)
       IN \E len \in e.lens :
          IF ContentInsufficient(len)
          THEN FinishCycleStep(id, len, << >>, NoResponse, "ok")
          ELSE \E items \in get_feedback_for_rag(feedback, incidents, analysis, 5, "ok"),
                  resp \in e.resps :
               IF ~ResponseAccepted(resp)
               THEN FinishCycleStep(id, len, items, resp, "ok")
               ELSE \E dbAn \in e.dbAn : FinishCycleStep(id, len, items, resp, dbAn)

\* run_full_cycle returns its summary.
CycleEnd ==
    /\ cycle.pc = "running"
    /\ cycle.queue = << >>
    /\ cycle' = IdleCycle
    /\ last' = [op |-> "run_full_cycle",
                log |-> cycle.log,
                analyzed |-> Cardinality({i \in 1..Len(cycle.log) :
                                             cycle.log[i].result.success}),
                failed |-> Cardinality({i \in 1..Len(cycle.log) :
                                           ~cycle.log[i].result.success})]
    /\ UNCHANGED <<incidents, analysis, feedback, analysis_seq, feedback_seq, now,
                   rag_template, cli, sched>>

\* get_latest_analysis(incident_id), as the CLI and the analyzer call it: the
\* answer is kept as a set, empty for None.
GetLatestAnalysis(e) ==
    \E id \in e.ids, db \in e.dbRead :
        /\ \E ret \in IF db = "raise" \/ get_latest_analysis(analysis, id, db) = {}
                      THEN {{}}
                      ELSE {{a} : a \in get_latest_analysis(analysis, id, db)} :
              last' = [op |-> "get_latest_analysis", incident_id |-> id, db |-> db,
                       ret |-> ret, raised |-> db = "raise"]
        /\ UNCHANGED <<incidents, analysis, feedback, analysis_seq, feedback_seq, now,
                       rag_template, cli, cycle, sched>>

\* ---------------------------------------------------------------- scheduler

\* The main thread runs start(): `pc` is where it stands.  The jobs that
\* APScheduler fires run in its thread pool: `running` counts the instances
\* of each job in flight.  `state` is the state of the BlockingScheduler.
Jobs == {"process_incidents", "cleanup_old_data", "health_check"}

\* CyberTriageScheduler.__init__.  `processor` is whether self.processor is
\* set; `noproc` is the jobs whose running instance found _init_processor
\* raising.
Constructed ==
    [pc |-> "constructed", is_running |-> FALSE, state |-> "STATE_STOPPED",
     running |-> [j \in Jobs |-> 0], processor |-> FALSE, noproc |-> {},
     constructing |-> {}, instances |-> 0, signalled |-> FALSE]

\* add_job without the max_instances argument that bounds it to one.
MaxInstances_two(j) == 2

\* The instances of job j that APScheduler lets run at once: add_job is given
\* max_instances=1 for process_incidents, and 1 is the default of the others.
MaxInstances(j) == 1

\* A scheduler whose triggers fire from the moment the jobs are added.
TriggersArmed_at_add_job(s) == s.pc \in {"cold_start", "armed", "loop"}

\* The triggers of the added jobs fire only in the scheduler that
\* self.scheduler.start() has started and that has not been shut down.
TriggersArmed(s) == s.pc = "loop" /\ s.state = "STATE_RUNNING"

\* A job whose body is not inside try/except: its exception leaves the job.
JobResult_uncaught(ok) == IF ok THEN "completed" ELSE "raised"

\* How a job function returns: its body, _init_processor included, is inside
\* try/except Exception, so an exception is logged and the job returns.
JobResult(ok) == IF ok THEN "completed" ELSE "logged"

\* start() up to the cold start: the jobs are added, and job_process_incidents
\* is called in the main thread.  Its _init_processor constructs the processor,
\* or raises and leaves self.processor unset.
\* What run_full_cycle does to the store is CycleBegin, CycleStep, CycleEnd.
SchedStart(e) ==
    /\ sched.pc = "constructed"
    /\ \E ok \in e.initOk :
        sched' = [sched EXCEPT !.pc = "cold_start", !.processor = ok,
                               !.instances = IF ok THEN 1 ELSE 0]
    /\ last' = [op |-> "start"]
    /\ UNCHANGED <<incidents, analysis, feedback, analysis_seq, feedback_seq, now,
                   rag_template, cli, cycle>>

\* The cold-start call returns and start() sets is_running; an exception that
\* left the call would leave start() before that.
ColdStartEnds(e) ==
    /\ sched.pc = "cold_start"
    /\ \E ok \in e.bodyOk :
        LET out == JobResult(sched.processor /\ ok)
        IN /\ sched' = IF out = "raised"
                       THEN [sched EXCEPT !.pc = "crashed"]
                       ELSE [sched EXCEPT !.pc = "armed", !.is_running = TRUE]
           /\ last' = [op |-> "cold_start_end", outcome |-> out]
    /\ UNCHANGED <<incidents, analysis, feedback, analysis_seq, feedback_seq, now,
                   rag_template, cli, cycle>>

\* self.scheduler.start(): the BlockingScheduler runs its loop in the main thread.
EnterLoop ==
    /\ sched.pc = "armed"
    /\ sched' = [sched EXCEPT !.pc = "loop", !.state = "STATE_RUNNING"]
    /\ last' = [op |-> "scheduler_start"]
    /\ UNCHANGED <<incidents, analysis, feedback, analysis_seq, feedback_seq, now,
                   rag_template, cli, cycle>>

\* stop(), as _handle_shutdown calls it: nothing unless is_running; then
\* scheduler.shutdown(wait=False), which ends the loop of a running scheduler
\* and raises SchedulerNotRunningError on one that was not started.
stop(s) ==
    IF ~s.is_running
    THEN s
    ELSE IF s.state = "STATE_RUNNING"
    THEN [s EXCEPT !.state = "STATE_STOPPED", !.is_running = FALSE, !.pc = "returned"]
    ELSE [s EXCEPT !.pc = "crashed"]

\* SIGTERM or SIGINT is delivered once start() has begun: _handle_shutdown
\* runs in the main thread, wherever it stands.
Signal ==
    /\ sched.pc \in {"cold_start", "armed", "loop"}
    /\ sched' = [stop(sched) EXCEPT !.signalled = TRUE]
    /\ last' = [op |-> "signal"]
    /\ UNCHANGED <<incidents, analysis, feedback, analysis_seq, feedback_seq, now,
                   rag_template, cli, cycle>>

\* The trigger of job j fires in the running scheduler: the job is submitted
\* to the pool, unless MaxInstances(j) instances of it are running; then the
\* run is skipped (MaxInstancesReachedError) and not kept for later.  The
\* submitted job begins with _init_processor in its pool thread: it reads
\* self.processor and, finding None, goes on to construct a processor.
TriggerFires(e) ==
    /\ TriggersArmed(sched)
    /\ \E j \in Jobs :
        IF sched.running[j] >= MaxInstances(j)
        THEN /\ last' = [op |-> "trigger", job |-> j, outcome |-> "skipped"]
             /\ UNCHANGED <<incidents, analysis, feedback, analysis_seq,
                            feedback_seq, now, rag_template, cli, cycle, sched>>
        ELSE /\ sched' = [sched EXCEPT
                               !.running[j] = @ + 1,
                               !.constructing = IF sched.processor
                                                THEN @ ELSE @ \cup {j}]
             /\ last' = [op |-> "trigger", job |-> j, outcome |-> "submitted"]
             /\ UNCHANGED <<incidents, analysis, feedback, analysis_seq,
                            feedback_seq, now, rag_template, cli, cycle>>

\* A job that found self.processor None ends _init_processor:
\* IncidentProcessor() returns an instance, which is assigned to
\* self.processor whatever another thread assigned meanwhile, or raises.
\* No lock is held between the test and the assignment.
ProcessorConstructed(e) ==
    \E j \in sched.constructing, ok \in e.initOk :
        /\ sched' = [sched EXCEPT
                        !.constructing = @ \ {j},
                        !.processor = @ \/ ok,
                        !.instances = IF ok THEN @ + 1 ELSE @,
                        !.noproc = IF ok THEN @ ELSE @ \cup {j}]
        /\ last' = [op |-> "init_processor", job |-> j, ok |-> ok]
        /\ UNCHANGED <<incidents, analysis, feedback, analysis_seq, feedback_seq, now,
                       rag_template, cli, cycle>>

\* get_database_stats: counts read with SELECTs; {} on a sqlite3.Error.
\* ai_accuracy is kept in whole percent; avg_relevance is read the same way.
get_database_stats(inc, an, fb, db) ==
    IF db = "error"
    THEN [k \in {} |-> 0]
    ELSE [incidents_by_status |->
              [st \in {r.status : r \in inc} |->
                  Cardinality({r \in inc : r.status = st})],
          total_analyses |-> Cardinality(an),
          total_feedback |-> Cardinality(fb),
          ai_accuracy |->
              IF Cardinality(fb) > 0
              THEN (Cardinality({f \in fb : f.original_verdict = f.corrected_verdict})
                        * 100) \div Cardinality(fb)
              ELSE 0]

\* dict.get(key, default)
StatsGet(stats, key, default) ==
    IF key \in DOMAIN stats THEN stats[key] ELSE default

\* A health check that resets every incident it counts.
job_health_check_resetting(inc, an, fb, dbStats, dbPending) ==
    [incidents |-> {[r EXCEPT !.status = "pending"] : r \in inc},
     analysis |-> an, feedback |-> fb, log |-> [health |-> "OK"]]

\* The body of job_health_check once the processor is there: it reads the
\* statistics and the pending incidents and logs one line; the tables are
\* what they were.  A connection that cannot be opened raises: HEALTH: FAIL.
job_health_check(inc, an, fb, dbStats, dbPending) ==
    [incidents |-> inc, analysis |-> an, feedback |-> fb,
     log |-> IF dbStats = "raise" \/ dbPending = "raise"
             THEN [health |-> "FAIL"]
             ELSE [health |-> "OK",
                   pending |->
                       Len(CHOOSE p \in get_pending_incidents(inc, 100, dbPending) : TRUE),
                   total_analyses |->
                       StatsGet(get_database_stats(inc, an, fb, dbStats),
                                "total_analyses", 0)]]

\* An instance of job j ends in its pool thread (a shutdown with wait=False
\* does not interrupt it).  job_cleanup_old_data has called clear_old_data,
\* which raises when the connection cannot be opened; job_health_check has
\* only read the store.  An exception that leaves a job in the pool is caught
\* by the executor: the scheduler runs on.
JobEnds(e) ==
    \E j \in Jobs :
        /\ sched.running[j] > 0
        /\ j \notin sched.constructing
        /\ sched' = [sched EXCEPT !.running[j] = @ - 1, !.noproc = @ \ {j}]
        /\ \E days \in e.days, tz \in e.tz, db \in e.dbPurge, bodyOk \in e.bodyOk,
              dbStats \in e.dbRead, dbPending \in e.dbRead :
            LET r == clear_old_data(incidents, analysis, feedback, days, now + tz, db)
                h == job_health_check(incidents, analysis, feedback, dbStats, dbPending)
                ok == /\ j \notin sched.noproc
                      /\ CASE j = "cleanup_old_data" -> db # "raise"
                           [] j = "health_check" -> h.log.health = "OK"
                           [] OTHER -> bodyOk
                after == IF j = "cleanup_old_data" /\ ok THEN r
                         ELSE IF j = "health_check" /\ j \notin sched.noproc THEN h
                         ELSE [incidents |-> incidents, analysis |-> analysis,
                               feedback |-> feedback]
            IN /\ incidents' = after.incidents
               /\ analysis' = after.analysis
               /\ feedback' = after.feedback
               /\ last' = [op |-> "job_end", job |-> j, outcome |-> JobResult(ok)]
        /\ UNCHANGED <<analysis_seq, feedback_seq, now, rag_template, cli, cycle>>

InitStore ==
    /\ cycle = IdleCycle
    /\ sched = Constructed
    /\ incidents = {}
    /\ analysis = {}
    /\ feedback = {}
    /\ analysis_seq = 0
    /\ feedback_seq = 0
    /\ now = 0
    /\ cli = Menu
    /\ last = [op |-> "init"]

\* One response that analyze_file accepts and whose verdict is in the enum.
GoodResponse == Response("object", RequiredFields, "TRUE_POSITIVE", 9)

\* ---------------------------------------------------------- specifications

\* Spec: the incidents table under every outcome of the database: callers
\* submit incidents and set their status, the purge deletes old ones.
StoreEnv ==
    [ids |-> IncidentIds, statuses |-> Statuses,
     dbInc |-> DbOutcomes, dbUpd |-> DbOutcomes, dbPurge |-> DbOutcomes,
     days |-> 0..MaxDays, tz |-> TzOffsets]

Init ==
    /\ InitStore
    /\ rag_template = << >>

Next ==
    \/ Tick(MaxNow)
    \/ PutIncident(StoreEnv)
    \/ SetIncidentStatus(StoreEnv)
    \/ ClearOldData(StoreEnv)

Spec == Init /\ [][Next]_vars

\* RagSpec: feedback is recorded for stored and for unstored incidents, the
\* purge deletes old rows, and the retrieval query runs at any time.
RagEnv ==
    [ids |-> {"INC-1"}, dbInc |-> {"ok"}, fbIds |-> IncidentIds,
     analysisIds |-> {-1}, original |-> {"TRUE_POSITIVE"},
     corrected |-> {"FALSE_POSITIVE"}, relevance |-> {7, 10},
     dbFb |-> {"ok"}, maxFeedback |-> MaxRagRows,
     days |-> {0}, tz |-> {0}, dbPurge |-> {"ok"},
     limits |-> -1..MaxLimit, dbRead |-> {"ok", "error"}]

RagNext ==
    \/ Tick(MaxRagNow)
    \/ PutIncident(RagEnv)
    \/ SubmitFeedback(RagEnv)
    \/ ClearOldData(RagEnv)
    \/ FeedbackForRag(RagEnv)

RagSpec == Init /\ [][RagNext]_vars

\* AnalyzeSpec: the analyst analyzes files under every content length, model
\* response and database outcome, with any rag template on disk, and records
\* feedback on some of the results.
AnalyzeEnv ==
    [ids |-> {"INC-1"}, dbInc |-> {"ok"}, lens |-> {9, 10},
     dbRag |-> DbOutcomes, dbStats |-> {"ok"},
     resps |-> {r \in Responses : r.verdict \in {NULL, "TRUE_POSITIVE"}
                                     /\ r.confidence <= 10},
     dbAn |-> DbOutcomes, maxAnalysis |-> MaxAnalysisRows,
     corrected |-> {"FALSE_POSITIVE"}, attempts |-> {<<Comment(0, 10)>>},
     relevance |-> {10},
     dbFb |-> {"ok"}, dbUpd |-> {"ok"}, maxFeedback |-> MaxAnalyzeFeedback]

AnalyzeInit ==
    /\ InitStore
    /\ rag_template \in RagTemplates

AnalyzeNext ==
    \/ CliAnalyzeFiles(AnalyzeEnv)
    \/ CliDeclineFeedback
    \/ CliFeedbackOnResult(AnalyzeEnv)

AnalyzeSpec == AnalyzeInit /\ [][AnalyzeNext]_vars

\* VerdictSpec: the analyst analyzes files for which the model returns any
\* complete JSON object, with a verdict in or outside the enumeration and a
\* confidence in or outside [0.0, 1.0], or no JSON at all.
VerdictEnv ==
    [ids |-> {"INC-1"}, dbInc |-> {"ok"}, lens |-> {10},
     dbRag |-> {"ok"}, dbStats |-> {"ok"},
     resps |-> {r \in Responses : r.kind = "unparseable" \/ r.fields = RequiredFields},
     dbAn |-> {"ok", "error"}, maxAnalysis |-> MaxAnalysisRows]

VerdictNext ==
    \/ Tick(MaxRagNow)
    \/ CliAnalyzeFiles(VerdictEnv)
    \/ CliDeclineFeedback

VerdictSpec == AnalyzeInit /\ [][VerdictNext]_vars

\* LatestSpec: files of one incident are analyzed again and again, in the
\* same tick of the clock or in later ones, and the latest analysis is read.
LatestEnv ==
    [ids |-> {"INC-1"}, dbInc |-> {"ok"}, lens |-> {10},
     dbRag |-> {"ok"}, dbStats |-> {"ok"},
     resps |-> {GoodResponse, Response("object", RequiredFields, "REQUIRES_REVIEW", 9)},
     dbAn |-> {"ok"}, maxAnalysis |-> MaxAnalysisRows, dbRead |-> DbOutcomes]

LatestNext ==
    \/ Tick(MaxRagNow)
    \/ CliAnalyzeFiles(LatestEnv)
    \/ CliDeclineFeedback
    \/ GetLatestAnalysis(LatestEnv)

LatestSpec == AnalyzeInit /\ [][LatestNext]_vars

\* ContentSpec: the analyst analyzes files whose content is too short, short,
\* exactly as long as the prompt takes, and longer.
ContentEnv ==
    [ids |-> {"INC-1"}, dbInc |-> {"ok"}, lens |-> ContentLengths,
     dbRag |-> {"ok"}, dbStats |-> {"ok"},
     resps |-> {GoodResponse, Response("transport_error", {}, NULL, 0)},
     dbAn |-> {"ok"}, maxAnalysis |-> MaxAnalysisRows]

ContentNext ==
    \/ Tick(MaxRagNow)
    \/ CliAnalyzeFiles(ContentEnv)
    \/ CliDeclineFeedback

ContentSpec == AnalyzeInit /\ [][ContentNext]_vars

\* ConnSpec: analyze_file runs step by step under every outcome of its
\* store calls and of the model call; feedback is recorded on some results,
\* so that later calls retrieve it.
ConnEnv ==
    [ids |-> {"INC-1"}, dbInc |-> {"ok"}, lens |-> {10},
     dbRag |-> DbOutcomes, dbStats |-> DbOutcomes,
     resps |-> {GoodResponse, Response("transport_error", {}, NULL, 0)},
     dbAn |-> DbOutcomes, maxAnalysis |-> MaxAnalysisRows,
     corrected |-> {"FALSE_POSITIVE"}, attempts |-> {<<Comment(0, 10)>>},
     relevance |-> {10}, dbFb |-> {"ok"}, dbUpd |-> {"ok"},
     maxFeedback |-> MaxAnalyzeFeedback]

ConnNext ==
    \/ AnalyzeFileBegin(ConnEnv)
    \/ AnalyzeFileConnect(ConnEnv)
    \/ AnalyzeFileQuery(ConnEnv)
    \/ AnalyzeFileModelReturns(ConnEnv)
    \/ AnalyzeFileReturn
    \/ CliDeclineFeedback
    \/ CliFeedbackOnResult(ConnEnv)

ConnSpec == AnalyzeInit /\ [][ConnNext]_vars

\* FrameSpec: every write of the store in one run: incidents are submitted,
\* twice too, files are analyzed, feedback is recorded, statuses are set
\* under every outcome of the database, and old rows are purged.
FrameEnv ==
    [ids |-> IncidentIds, statuses |-> {"analyzed", "error"}, dbInc |-> {"ok"},
     lens |-> {10}, dbRag |-> {"ok"}, dbStats |-> {"ok"},
     resps |-> {GoodResponse}, dbAn |-> {"ok"}, maxAnalysis |-> MaxAnalysisRows,
     corrected |-> {"FALSE_POSITIVE"},
     attempts |-> {<<Comment(0, 10)>>}, relevance |-> {10},
     dbFb |-> {"ok"}, dbUpd |-> {"ok", "error"},
     maxFeedback |-> MaxAnalyzeFeedback,
     days |-> {0}, tz |-> {0}, dbPurge |-> {"ok"}]

\* The analyst's files belong to one incident.
FrameCliEnv == [FrameEnv EXCEPT !.ids = {"INC-1"}]

FrameNext ==
    \/ Tick(MaxRagNow)
    \/ PutIncident(FrameEnv)
    \/ SetIncidentStatus(FrameEnv)
    \/ CliAnalyzeFiles(FrameCliEnv)
    \/ CliDeclineFeedback
    \/ CliFeedbackOnResult(FrameCliEnv)
    \/ ClearOldData(FrameEnv)

FrameSpec == Init /\ [][FrameNext]_vars

\* FeedbackSpec: the analyst analyzes files, which the model and the database
\* serve, and records feedback on the results and on analyzed incidents under
\* every outcome of the database; other callers set the incident's status.
FeedbackEnv ==
    [ids |-> {"INC-1"}, statuses |-> Statuses, dbInc |-> {"ok"}, lens |-> {10},
     dbRag |-> {"ok"}, dbStats |-> {"ok"}, resps |-> {GoodResponse},
     dbAn |-> {"ok"}, maxAnalysis |-> MaxAnalysisRows,
     corrected |-> Verdicts, attempts |-> CommentAttempts, relevance |-> {10},
     dbFb |-> DbOutcomes, dbUpd |-> DbOutcomes, dbRead |-> {"ok"},
     maxFeedback |-> MaxFeedbackRows]

FeedbackNext ==
    \/ CliAnalyzeFiles(FeedbackEnv)
    \/ CliDeclineFeedback
    \/ CliFeedbackOnResult(FeedbackEnv)
    \/ CliProvideFeedback(FeedbackEnv)
    \/ SetIncidentStatus(FeedbackEnv)

FeedbackSpec == Init /\ [][FeedbackNext]_vars

\* PurgeSpec: rows of the three tables are created while the clock runs (the
\* analyst analyzes files and records feedback, which the model and the
\* database serve), and clear_old_data is called at any time, in any time zone.
PurgeEnv ==
    [ids |-> {"INC-1"}, dbInc |-> {"ok"}, lens |-> {10},
     dbRag |-> {"ok"}, dbStats |-> {"ok"}, resps |-> {GoodResponse},
     dbAn |-> {"ok"}, maxAnalysis |-> MaxAnalysisRows,
     corrected |-> {"FALSE_POSITIVE"}, attempts |-> {<<Comment(0, 10)>>},
     relevance |-> {10},
     dbFb |-> {"ok"}, dbUpd |-> {"ok"}, maxFeedback |-> MaxFeedbackRows,
     days |-> 0..MaxDays, tz |-> TzOffsets, dbPurge |-> DbOutcomes]

PurgeNext ==
    \/ Tick(MaxNow)
    \/ CliAnalyzeFiles(PurgeEnv)
    \/ CliDeclineFeedback
    \/ CliFeedbackOnResult(PurgeEnv)
    \/ ClearOldData(PurgeEnv)

PurgeSpec == Init /\ [][PurgeNext]_vars

\* CycleSpec: incidents are submitted and processing cycles run over them;
\* each analysis meets any content, any model response and any outcome of
\* the insert.
CycleEnv ==
    [ids |-> CycleIncidentIds, dbInc |-> {"ok"}, dbRead |-> {"ok", "error"},
     maxPerCycle |-> MaxPerCycle, lens |-> {9, 10},
     resps |-> {GoodResponse,
                Response("transport_error", {}, NULL, 0),
                Response("unparseable", {}, NULL, 0),
                Response("object", RequiredFields \ {"reasoning"}, "TRUE_POSITIVE", 9)},
     dbAn |-> {"ok", "error"}]

CycleNext ==
    \/ PutIncident(CycleEnv)
    \/ CycleBegin(CycleEnv)
    \/ CycleStep(CycleEnv)
    \/ CycleEnd

CycleSpec == Init /\ [][CycleNext]_vars

\* SchedSpec: the scheduler is started, its triggers fire in any order, the
\* jobs end at any time, and a termination signal may arrive at any point;
\* meanwhile the clock runs and incidents are submitted to the store.
SchedEnv ==
    [ids |-> {"INC-1"}, dbInc |-> {"ok"},
     statuses |-> {"analyzed"}, dbUpd |-> {"ok"},
     days |-> {MaxDays}, tz |-> {0}, dbPurge |-> {"ok", "raise"},
     initOk |-> BOOLEAN, bodyOk |-> BOOLEAN, dbRead |-> DbOutcomes]

SchedNext ==
    \/ Tick(MaxNow)
    \/ PutIncident(SchedEnv)
    \/ SetIncidentStatus(SchedEnv)
    \/ SchedStart(SchedEnv)
    \/ ColdStartEnds(SchedEnv)
    \/ EnterLoop
    \/ Signal
    \/ TriggerFires(SchedEnv)
    \/ ProcessorConstructed(SchedEnv)
    \/ JobEnds(SchedEnv)

SchedSpec == Init /\ [][SchedNext]_vars

\* ------------------------------------------------------------------ claims

Stored(id) == \E r \in incidents : r.incident_id = id

UniqueIncidentIds ==
    \A r1, r2 \in incidents : r1.incident_id = r2.incident_id => r1 = r2

Retrievable == {f \in feedback : Stored(f.incident_id)}

\* Feedback row f is the stored row behind the returned item x.
ItemOf(f, x) ==
    /\ x.id = f.id
    /\ x.incident_id = f.incident_id
    /\ x.relevance_score = f.relevance_score
    /\ x.created_at = f.created_at
    /\ x.corrected_verdict = f.corrected_verdict

\* x ranks no higher than y: relevance descending, then newest first.
NoHigher(x, y) ==
    \/ x.relevance_score < y.relevance_score
    \/ x.relevance_score = y.relevance_score /\ x.created_at <= y.created_at

\* The sequence r is in retrieval order and holds each item once.
InRetrievalOrder(r) ==
    \A i, j \in 1..Len(r) : i < j => NoHigher(r[j], r[i]) /\ r[i].id # r[j].id

\* Every row of S that r does not hold ranks no higher than r's last item.
RestRanksNoHigher(S, r) ==
    \A f \in S : (\A i \in 1..Len(r) : r[i].id # f.id) /\ Len(r) > 0
                     => NoHigher(f, r[Len(r)])

Rejectable(resp) ==
    \/ resp.kind = "unparseable"
    \/ /\ resp.kind = "object"
       /\ \E f \in {"verdict", "confidence", "summary", "reasoning"} :
              f \notin resp.fields

\* C3: when the model response is not parseable as JSON, or parses but omits
\* one of verdict, confidence, summary, reasoning, analyze_file returns an
\* error result and the analysis table is left as it was.
C3_SchemaRejection ==
    [][last'.op = "analyze_files" /\ Rejectable(last'.resp) =>
          /\ ~last'.result.success
          /\ ~last'.raised
          /\ analysis' = analysis
          /\ analysis_seq' = analysis_seq]_vars

\* A response that lacked only `reasoning` was rejected while the analysis
\* table held a row of an earlier call.
C3_Witness ==
    /\ last.op = "analyze_files"
    /\ last.resp.kind = "object"
    /\ last.resp.fields = RequiredFields \ {"reasoning"}
    /\ ~last.result.success
    /\ analysis # {}

\* C7: with zero Feedback rows, composing the prompt does not fail and nothing
\* stands between the system instructions and the incident block.  Stated of
\* the calls whose content is long enough to be analyzed and whose retrieval
\* query the database serves.
C7_AsStated ==
    /\ last.op = "analyze_files"
    /\ ~last.raised
    /\ last.feedback_rows = 0
    /\ last.len >= 10
    /\ last.dbRag = "ok"
    => /\ Len(last.prompt) = 4
       /\ last.prompt[1].sec = "SYSTEM"
       /\ last.prompt[2].sec = "INCIDENT"
       /\ last.prompt[3].sec = "CONTENT"
       /\ last.prompt[4].sec = "DIRECTIVE"

\* C10: whenever analyze_file returns a success result, that call added
\* exactly one Analysis row, of that incident, and the returned analysis_id
\* is the id of that row.
C10_AsStated ==
    [][last'.op = "analyze_files" /\ last'.result.success =>
          /\ analysis \subseteq analysis'
          /\ \E r \in analysis' \ analysis :
                 /\ analysis' \ analysis = {r}
                 /\ r.id = last'.result.analysis_id
                 /\ r.incident_id = last'.incident_id]_vars

\* C4: recording feedback sets the owning incident's status if and only if
\* the feedback was stored: once stored, the status is pending when the
\* corrected verdict is REQUIRES_REVIEW and analyzed otherwise, whatever it was
\* before; when the feedback is not stored the status stays as it was.
C4_AsStated ==
    [][last'.op = "collect_feedback" =>
          \A i \in incidents : i.incident_id = last'.incident_id =>
              \E j \in incidents' :
                  /\ j.incident_id = i.incident_id
                  /\ j.status =
                         IF feedback' # feedback
                         THEN IF last'.corrected_verdict = "REQUIRES_REVIEW"
                              THEN "pending" ELSE "analyzed"
                         ELSE i.status]_vars

\* clear_old_data(days) took the table from `before` to `after` as the claim
\* says: every row older than `days` days is gone, every row younger than
\* that is kept, and `count` is the number of rows removed.
PurgedByAge(before, after, days, count) ==
    /\ after \subseteq before
    /\ \A r \in before :
           /\ now - r.created_at > days * DayTicks => r \notin after
           /\ now - r.created_at < days * DayTicks => r \in after
    /\ count = Cardinality(before \ after)

\* C5: clear_old_data(d) deletes every Incident, Analysis and Feedback row
\* older than d days, keeps every row younger than d days, and returns
\* (incidents deleted, analyses deleted, feedback deleted).  Stated of the
\* calls the database serves without error.
C5_AsStated ==
    [][last'.op = "clear_old_data" /\ last'.db = "ok" =>
          /\ PurgedByAge(incidents, incidents', last'.days, last'.ret[1])
          /\ PurgedByAge(analysis, analysis', last'.days, last'.ret[2])
          /\ PurgedByAge(feedback, feedback', last'.days, last'.ret[3])]_vars

\* Entry x of a cycle's log is an analysis that failed by a transport or a
\* schema error.
AnalysisFailed(x) ==
    x.resp.kind = "transport_error" \/ Rejectable(x.resp)

\* Entry x of a cycle's log is an analysis the model answered with a complete
\* object, on a content long enough to be analyzed.
AnalysisAnswered(x) ==
    /\ x.len >= 10
    /\ x.resp.kind = "object"
    /\ {"verdict", "confidence", "summary", "reasoning"} \subseteq x.resp.fields

\* C6: when the analysis of an incident of a cycle fails by a transport or a
\* schema error, that incident's status becomes error, every other incident
\* of the cycle that the model answers is analyzed and its Analysis is
\* persisted, and the summary counts the incidents whose Analysis was
\* persisted as successes and the others as failures.
C6_AsStated ==
    last.op = "run_full_cycle"
    /\ (\E k \in 1..Len(last.log) : AnalysisFailed(last.log[k]))
    => /\ \A k \in 1..Len(last.log) :
             LET x == last.log[k]
             IN /\ AnalysisFailed(x) =>
                       \E i \in incidents :
                           i.incident_id = x.incident_id /\ i.status = "error"
                /\ AnalysisAnswered(x) =>
                       /\ \E i \in incidents :
                              i.incident_id = x.incident_id /\ i.status = "analyzed"
                       /\ \E a \in analysis : a.incident_id = x.incident_id
       /\ last.analyzed =
              Cardinality({k \in 1..Len(last.log) :
                              \E a \in analysis :
                                  a.incident_id = last.log[k].incident_id})
       /\ last.analyzed + last.failed = Len(last.log)

\* The invocations of job_process_incidents in flight in scheduler state s:
\* those of the pool and the cold-start call of the main thread.
ProcessInstances(s) ==
    s.running["process_incidents"] + (IF s.pc = "cold_start" THEN 1 ELSE 0)

\* C8: there are never two invocations of process_incidents at once; a trigger
\* of the job that fires while one is running is skipped and changes nothing;
\* and an invocation begins only in start() or when a trigger fires with none
\* running, so that a skipped run is not made up later.
C8_SingleInstance ==
    /\ [](ProcessInstances(sched) <= 1)
    /\ [][/\ last'.op = "trigger"
          /\ last'.job = "process_incidents"
          /\ ProcessInstances(sched) >= 1
          => last'.outcome = "skipped" /\ sched' = sched]_vars
    /\ [][ProcessInstances(sched') > ProcessInstances(sched)
          => /\ ProcessInstances(sched) = 0
             /\ \/ last'.op = "start"
                \/ last'.op = "trigger" /\ last'.outcome = "submitted"]_vars

\* The trigger of process_incidents fired while an invocation was running,
\* and was skipped.
C8_Witness ==
    /\ last.op = "trigger"
    /\ last.job = "process_incidents"
    /\ last.outcome = "skipped"
    /\ sched.running["process_incidents"] = 1

\* C9: once a termination signal was delivered after start() began, no job
\* invocation begins and the scheduler is not running.
C9_AsStated ==
    /\ [][sched.signalled =>
             \A j \in Jobs : sched'.running[j] <= sched.running[j]]_vars
    /\ [](sched.signalled => sched.state # "STATE_RUNNING")

\* C11: when analyze_files has returned after a successful analysis whose
\* Analysis row is stored, the incident is not left in status pending.  The
\* step ends when the analyst answers the feedback offer; stated of the
\* answer "no".
C11_AsStated ==
    [][/\ last'.op = "decline_feedback"
       /\ cli.result.success
       /\ \E a \in analysis' : /\ a.id = cli.result.analysis_id
                                /\ a.incident_id = cli.incident_id
       => \A i \in incidents' :
              i.incident_id = cli.incident_id => i.status # "pending"]_vars

\* C12: an exception in the body of a job, a failed construction of the
\* processor included, is caught and logged in the job and does not reach the
\* scheduler: a failed cold start still arms the scheduler, a failed job in the
\* pool ends logged and leaves the scheduler as it was, and in the running
\* scheduler every job without an instance in flight is submitted at its
\* trigger, whatever failed before.
C12_JobFailureContained ==
    [][/\ last'.op = "cold_start_end"
          => /\ last'.outcome \in {"completed", "logged"}
             /\ sched'.pc = "armed"
       /\ last'.op = "job_end"
          => /\ last'.outcome \in {"completed", "logged"}
             /\ sched'.pc = sched.pc
             /\ sched'.state = sched.state
             /\ sched'.is_running = sched.is_running
             /\ sched'.running[last'.job] = sched.running[last'.job] - 1
       /\ /\ last'.op = "trigger"
          /\ sched.running[last'.job] = 0
          => /\ last'.outcome = "submitted"
             /\ sched'.running[last'.job] = 1]_vars

\* A job in the pool has failed and the scheduler is running.
C12_Witness ==
    /\ last.op = "job_end"
    /\ last.outcome = "logged"
    /\ sched.pc = "loop"
    /\ sched.state = "STATE_RUNNING"

\* C13: job_health_check changes no table: the Incident, Analysis and
\* Feedback rows, every status among them, are after an invocation what they
\* were before it, whether it logged OK or FAIL.
C13_HealthCheckFrame ==
    [][/\ last'.op = "job_end"
       /\ last'.job = "health_check"
       => /\ incidents' = incidents
          /\ analysis' = analysis
          /\ feedback' = feedback]_vars

\* A health check has logged OK on a store that holds an incident which is
\* not pending.
C13_Witness ==
    /\ last.op = "job_end"
    /\ last.job = "health_check"
    /\ last.outcome = "completed"
    /\ \E i \in incidents : i.status # "pending"

\* C14: a store write that meets a persistence error leaves every table as
\* it was and returns its failure indicator (FALSE, or <<0, 0, 0>> for the
\* purge) instead of raising.  Stated of insert_incident,
\* update_incident_status and clear_old_data.
C14_AsStated ==
    [][/\ last'.op \in {"insert_incident", "update_incident_status", "clear_old_data"}
       /\ last'.db # "ok"
       => /\ incidents' = incidents
          /\ analysis' = analysis
          /\ feedback' = feedback
          /\ ~last'.raised
          /\ last'.ret = IF last'.op = "clear_old_data" THEN <<0, 0, 0>> ELSE FALSE]_vars

\* C15: start() runs one process_incidents cycle to its end before the
\* periodic loop: no instance of a job is in the pool and no trigger has fired
\* while start() has not reached the loop, the loop is entered only from the
\* end of the cold-start call, and when that call has ended, failed or not,
\* the next step of start() enters the loop.
C15_ColdStartFirst ==
    [][/\ sched'.pc \in {"constructed", "cold_start", "armed"}
          => /\ \A j \in Jobs : sched'.running[j] = 0
             /\ last'.op # "trigger"
       /\ sched'.pc = "cold_start" => sched.pc \in {"constructed", "cold_start"}
       /\ sched'.pc = "armed" /\ sched.pc # "armed"
          => sched.pc = "cold_start" /\ last'.op = "cold_start_end"
       /\ sched'.pc = "loop" /\ sched.pc # "loop"
          => sched.pc = "armed" /\ last'.op = "scheduler_start"
       /\ last'.op = "cold_start_end"
          => /\ sched'.pc = "armed"
             /\ sched'.is_running
             /\ sched'.state = "STATE_STOPPED"]_vars

\* The loop has just been entered after a cold start that failed: the
\* processor could not be constructed.
C15_Witness ==
    /\ last.op = "scheduler_start"
    /\ sched.pc = "loop"
    /\ ~sched.processor

\* C16: at most one job instance of any kind is executing at a time: the
\* instances in the pool, and the cold-start call of the main thread, number
\* at most one.
C16_AsStated ==
    Cardinality({j \in Jobs : sched.running[j] > 0})
        + (IF sched.pc = "cold_start" THEN 1 ELSE 0) <= 1

\* C17: every stored Analysis row has a verdict of the enumeration and a
\* confidence within [0.0, 1.0] (0..10 tenths).
C17_AsStated ==
    \A a \in analysis :
        /\ a.gemini_verdict \in Verdicts
        /\ a.gemini_confidence \in 0..10

\* C18: get_latest_analysis, served by the database, returns None exactly
\* when the incident has no Analysis row, and otherwise the row of that
\* incident that was stored last (the one of the highest id), also when two
\* rows carry the same created_at.
C18_AsStated ==
    [][/\ last'.op = "get_latest_analysis"
       /\ last'.db = "ok"
       => LET own == {a \in analysis : a.incident_id = last'.incident_id}
          IN /\ last'.ret = {} <=> own = {}
             /\ \A r \in last'.ret :
                    /\ r \in own
                    /\ \A b \in own : b.id <= r.id]_vars

\* The place of a piece of prompt text in the order of C19: system
\* instructions, prior corrections, incident block, content, directive; 0 for
\* text that belongs to none of them.
SectionRank(piece) ==
    CASE piece.sec = "SYSTEM" -> 1
      [] piece.sec \in {"LEARNING_HEADER", "LEARNING_CASE", "LEARNING_STATS",
                        "LEARNING_APPLY"} -> 2
      [] piece.sec = "INCIDENT" -> 3
      [] piece.sec = "CONTENT" -> 4
      [] piece.sec = "DIRECTIVE" -> 5
      [] OTHER -> 0

\* The pieces of the prompt never step back in the order of C19.
InSectionOrder(prompt) ==
    \A i, j \in 1..Len(prompt) :
        i < j => SectionRank(prompt[i]) <= SectionRank(prompt[j])

\* C19: a prompt sent to the model is made of the five sections and nothing
\* else, in their order: system instructions, prior corrections (only when
\* feedback exists), incident block, content, directive, each of the four
\* fixed sections exactly once.
C19_AsStated ==
    /\ last.op = "analyze_files"
    /\ last.prompt # << >>
    => /\ \A i \in 1..Len(last.prompt) : SectionRank(last.prompt[i]) >= 1
       /\ InSectionOrder(last.prompt)
       /\ \A k \in {1, 3, 4, 5} :
              Cardinality({i \in 1..Len(last.prompt) :
                              SectionRank(last.prompt[i]) = k}) = 1
       /\ (\E i \in 1..Len(last.prompt) : SectionRank(last.prompt[i]) = 2)
              => last.feedback_rows > 0

\* C20: the content in a prompt is the longest prefix of the file content of
\* at most 50,000 characters: all of a content of up to 50,000 characters, the
\* first 50,000 of a longer one; no leading character is dropped.
C20_PrefixTruncation ==
    /\ last.op = "analyze_files"
    /\ last.prompt # << >>
    => /\ Cardinality({i \in 1..Len(last.prompt) : last.prompt[i].sec = "CONTENT"}) = 1
       /\ \A i \in 1..Len(last.prompt) :
              last.prompt[i].sec = "CONTENT"
              => /\ last.prompt[i].x = 0
                 /\ last.len <= 50000 => last.prompt[i].y = last.len
                 /\ last.len > 50000 => last.prompt[i].y = 50000

\* A prompt was composed for a content of more than 50,000 characters.
C20_Witness ==
    /\ last.op = "analyze_files"
    /\ last.prompt # << >>
    /\ last.len > 50000

\* C21: in one scheduler process at most one processor is ever constructed
\* and in use, whatever the interleaving of the jobs.
C21_AsStated == sched.instances <= 1

\* C22: every Feedback row recorded through the interactive flow holds a
\* comment of at least 10 characters once its surrounding whitespace is
\* trimmed, and it is the first long enough try of the analyst: shorter tries
\* are asked again and not stored.
C22_CommentLength ==
    [][last'.op = "collect_feedback"
       => /\ \A f \in feedback' : f.analyst_comment.body >= 10
          /\ \A f \in feedback' \ feedback :
                 \E i \in 1..Len(last'.attempts) :
                     /\ f.analyst_comment = last'.attempts[i]
                     /\ \A j \in 1..(i - 1) : last'.attempts[j].body < 10]_vars

\* A feedback was stored after a try that was long as typed and too short
\* once trimmed.
C22_Witness ==
    /\ last.op = "collect_feedback"
    /\ last.success
    /\ Len(last.attempts) > 1
    /\ last.attempts[1].pad + last.attempts[1].body >= 10
    /\ \E f \in feedback : f.analyst_comment = last.attempts[2]

\* C23: analyze_file holds no open store connection while the model call is
\* in flight, nor when it returns: each store call it makes opens one
\* connection of its own and has closed it when it returns, on every path.
C23_NoOpenConnection ==
    cli.pc = "analyze_file"
    => /\ cli.open \in 0..1
       /\ cli.open = 1 <=> cli.at \in {"query_rag", "query_stats", "query_insert"}
       /\ cli.at \in {"model_call", "return"} => cli.open = 0

\* The model call is in flight after both reads of the retrieval step, the
\* second of which met a sqlite3.Error.
C23_Witness ==
    /\ cli.pc = "analyze_file"
    /\ cli.at = "model_call"
    /\ cli.items # << >>
    /\ cli.dbStats = "error"

\* C24: a stored Analysis or Feedback row never changes: at every step each
\* row is there unchanged or gone; and update_incident_status changes only
\* the status of the incident it names: every other incident, every analysis
\* and every feedback is as before, and so is every other field of that one.
C24_RowsImmutable ==
    [][/\ \A a \in analysis : a \in analysis' \/ \A b \in analysis' : b.id # a.id
       /\ \A f \in feedback : f \in feedback' \/ \A g \in feedback' : g.id # f.id
       /\ last'.op = "update_incident_status"
          => /\ analysis' = analysis
             /\ feedback' = feedback
             /\ Cardinality(incidents') = Cardinality(incidents)
             /\ \A i \in incidents :
                    IF i.incident_id = last'.incident_id
                    THEN \E st \in Statuses : [i EXCEPT !.status = st] \in incidents'
                    ELSE i \in incidents']_vars

\* update_incident_status has changed the status of one of two incidents,
\* with an analysis stored.
C24_Witness ==
    /\ last.op = "update_incident_status"
    /\ last.ret
    /\ analysis # {}
    /\ \E i, j \in incidents : /\ i.incident_id = last.incident_id
                               /\ i.status = last.status
                               /\ j.status # last.status

\* C25: only clear_old_data removes rows: across every other operation each
\* stored incident is still stored (created as it was), and every Analysis
\* and Feedback row is still there.
C25_OnlyPurgeRemoves ==
    [][last'.op # "clear_old_data"
       => /\ \A i \in incidents :
                 \E j \in incidents' : /\ j.incident_id = i.incident_id
                                        /\ j.created_at = i.created_at
          /\ analysis \subseteq analysis'
          /\ feedback \subseteq feedback']_vars

\* An incident that has an analysis and a status other than pending was
\* submitted again, and insert_incident answered False.
C25_Witness ==
    /\ last.op = "insert_incident"
    /\ ~last.ret
    /\ ~last.raised
    /\ \E i \in incidents : /\ i.incident_id = last.incident_id
                            /\ i.status # "pending"
                            /\ \E a \in analysis : a.incident_id = i.incident_id

\* C26: when the model call raises, analyze_file raises nothing: it returns
\* a failure result with the incident identifier and the text of the
\* exception, and the call stores no Analysis row.
C26_ModelFailure ==
    [][/\ last'.op = "analyze_files"
       /\ last'.resp.kind = "transport_error"
       => /\ ~last'.raised
          /\ ~last'.result.success
          /\ last'.result.incident_id = last'.incident_id
          /\ last'.result.error = "str(e)"
          /\ analysis' = analysis
          /\ analysis_seq' = analysis_seq]_vars

\* The model call of a later analysis has failed, with an Analysis of an
\* earlier one stored.
C26_Witness ==
    /\ last.op = "analyze_files"
    /\ last.resp.kind = "transport_error"
    /\ analysis # {}

\* Every Analysis and Feedback row of the tables refers to a stored Incident,
\* and every Feedback row to a stored Analysis.
ReferencesIntact(inc, an, fb) ==
    /\ \A a \in an : \E i \in inc : i.incident_id = a.incident_id
    /\ \A f \in fb : /\ \E i \in inc : i.incident_id = f.incident_id
                     /\ \E a \in an : a.id = f.analysis_id

\* C27: a purge of a store whose references are intact leaves them intact:
\* every surviving Analysis and Feedback refers to a surviving Incident and
\* every surviving Feedback to a surviving Analysis.
C27_AsStated ==
    [][/\ last'.op = "clear_old_data"
       /\ ReferencesIntact(incidents, analysis, feedback)
       => ReferencesIntact(incidents', analysis', feedback')]_vars

\* C28: what get_feedback_for_rag returns when the database serves it: no
\* item of a Feedback row whose incident is not stored; such rows do not use
\* up the limit, so min(limit, rows with a stored incident) items come back;
\* and a row whose Analysis is not stored is returned like any other, when
\* the limit leaves room for every row, with no original reasoning.
C28_OrphansSkipped ==
    /\ last.op = "get_feedback_for_rag"
    /\ last.db = "ok"
    /\ last.limit >= 0
    => LET kept == {f \in feedback :
                       \E i \in incidents : i.incident_id = f.incident_id}
       IN /\ \A k \in 1..Len(last.ret) :
                 \E i \in incidents : i.incident_id = last.ret[k].incident_id
          /\ Len(last.ret) = Min(last.limit, Cardinality(kept))
          /\ last.limit >= Cardinality(kept)
             => \A f \in kept :
                    (\A a \in analysis : a.id # f.analysis_id)
                    => \E k \in 1..Len(last.ret) :
                           /\ last.ret[k].id = f.id
                           /\ last.ret[k].original_reasoning = NULL

\* A query with limit 1 returned a row without a stored Analysis while a row
\* of higher relevance, whose incident is not stored, was skipped.
C28_Witness ==
    /\ last.op = "get_feedback_for_rag"
    /\ last.db = "ok"
    /\ last.limit = 1
    /\ Len(last.ret) = 1
    /\ last.ret[1].original_reasoning = NULL
    /\ \E f \in feedback :
           /\ \A i \in incidents : i.incident_id # f.incident_id
           /\ f.relevance_score > last.ret[1].relevance_score

\* C29: a Feedback row recorded through the interactive flow refers to a
\* stored Analysis of the same incident whose verdict is the row's
\* original_verdict; its analysis_id is never -1.
C29_AsStated ==
    [][last'.op = "collect_feedback"
       => \A f \in feedback' \ feedback :
              /\ f.analysis_id # -1
              /\ \E a \in analysis' : /\ a.id = f.analysis_id
                                       /\ a.incident_id = f.incident_id
                                       /\ a.gemini_verdict = f.original_verdict]_vars

\* C30: on a content that is empty or shorter than 10 characters
\* analyze_file returns a failure result with the incident identifier and has
\* called no model, composed no prompt, retrieved no feedback and stored no
\* Analysis.
C30_ShortContent ==
    [][/\ last'.op = "analyze_files"
       /\ ~last'.raised
       /\ last'.len < 10
       => /\ ~last'.result.success
          /\ last'.result.incident_id = last'.incident_id
          /\ last'.resp = NoResponse
          /\ last'.prompt = << >>
          /\ analysis' = analysis
          /\ analysis_seq' = analysis_seq]_vars

\* A file of 9 characters was refused, with an Analysis of an earlier file
\* stored.
C30_Witness ==
    /\ last.op = "analyze_files"
    /\ last.len = 9
    /\ analysis # {}

====
